---- MODULE Spec2Model ----
(***************************************************************************)
(* NumberPicker (packages/react-widgets/src/NumberPicker.js): the clamp /  *)
(* step / round arithmetic, the createInterval repeat timer, and the       *)
(* widget's mouse, key and input handlers driving both.                    *)
(*                                                                         *)
(* Numbers are decimal fixed point: a finite number is an integer count of *)
(* 10^-FracDigits units.  round() shifts the decimal point through the     *)
(* number's decimal string, so decimal arithmetic is what it computes on;  *)
(* binary floating point noise in the sum itself (0.1 + 0.2) is outside    *)
(* this model.  Time is in milliseconds.                                   *)
(***************************************************************************)
EXTENDS Integers, Sequences, FiniteSets, TLC

(***************************************************************************)
(* Bounds of the model.                                                    *)
(***************************************************************************)
FracDigits == 3        \* decimal digits kept behind the point
MaxIntervals == 2      \* createInterval closures that can be alive at once
MaxIds == 3            \* timeout handles that can be in use at once
Quantum == 25          \* the clock advances at most this many ms per step
MaxLate == 10          \* a due timeout runs at most this many ms late
CallsCap == 2          \* callback invocations are counted up to this

(***************************************************************************)
(* Program constants.                                                      *)
(***************************************************************************)
InitialDelay == 500
RepeatDelay == 35
DefaultStep == 1

RECURSIVE Pow10(_)
Pow10(k) == IF k <= 0 THEN 1 ELSE 10 * Pow10(k - 1)

Unit == Pow10(FracDigits)

(***************************************************************************)
(* JavaScript values.  t is the typeof, k the kind of number or string,    *)
(* n the magnitude: units for a finite number, the integer mantissa for a  *)
(* decimal numeral string with p fractional digits (what toFixed(p)        *)
(* prints).                                                                *)
(***************************************************************************)
Null == [t |-> "null", k |-> "none", n |-> 0, p |-> 0]
Undefined == [t |-> "undefined", k |-> "none", n |-> 0, p |-> 0]
EmptyString == [t |-> "string", k |-> "empty", n |-> 0, p |-> 0]
NaN == [t |-> "number", k |-> "nan", n |-> 0, p |-> 0]
Infinity == [t |-> "number", k |-> "inf", n |-> 0, p |-> 0]
NegInfinity == [t |-> "number", k |-> "ninf", n |-> 0, p |-> 0]
Num(units) == [t |-> "number", k |-> "fin", n |-> units, p |-> 0]
Str(mantissa, digits) == [t |-> "string", k |-> "fin", n |-> mantissa, p |-> digits]
NaNString == [t |-> "string", k |-> "nan", n |-> 0, p |-> 0]

\* the literal d / 10^e, e.g. Dec(5, 3) is 0.005 and Dec(9, 0) is 9
Dec(d, e) == Num((d * Unit) \div Pow10(e))

\* an optional precision: a number of fractional digits, or absent (null)
NoPrecision == [present |-> FALSE, digits |-> 0]
Precision(d) == [present |-> TRUE, digits |-> d]

\* value == null (loose): null or undefined
IsNullish(v) == v.t \in {"null", "undefined"}

\* !value: the falsy values that can occur
IsFalsy(v) ==
  \/ IsNullish(v)
  \/ v = EmptyString
  \/ v = NaN
  \/ v = Num(0)

\* ToNumber, as Math.min / Math.max apply it to their arguments
ToNumber(v) ==
  CASE v.t = "number" -> v
    [] v.t = "null" -> Num(0)
    [] v.t = "undefined" -> NaN
    [] v.t = "string" /\ v.k = "empty" -> Num(0)
    [] v.t = "string" /\ v.k = "nan" -> NaN
    [] OTHER -> Num(v.n * Pow10(FracDigits - v.p))

\* a < b on numbers that are not NaN
NumLess(a, b) ==
  CASE a.k = "ninf" -> b.k # "ninf"
    [] a.k = "inf" -> FALSE
    [] b.k = "ninf" -> FALSE
    [] b.k = "inf" -> TRUE
    [] OTHER -> a.n < b.n

MathMin(x, y) ==
  LET a == ToNumber(x)
      b == ToNumber(y)
  IN  IF a.k = "nan" \/ b.k = "nan" THEN NaN
      ELSE IF NumLess(b, a) THEN b ELSE a

MathMax(x, y) ==
  LET a == ToNumber(x)
      b == ToNumber(y)
  IN  IF a.k = "nan" \/ b.k = "nan" THEN NaN
      ELSE IF NumLess(a, b) THEN b ELSE a

\* a + b on numbers
Plus(a, b) ==
  CASE a.k = "nan" \/ b.k = "nan" -> NaN
    [] a.k = "inf" -> IF b.k = "ninf" THEN NaN ELSE Infinity
    [] a.k = "ninf" -> IF b.k = "inf" THEN NaN ELSE NegInfinity
    [] b.k \in {"inf", "ninf"} -> b
    [] OTHER -> Num(a.n + b.n)

\* -a on numbers
Negate(a) ==
  CASE a.k = "inf" -> NegInfinity
    [] a.k = "ninf" -> Infinity
    [] a.k = "nan" -> NaN
    [] OTHER -> Num(0 - a.n)

\* a === b
StrictEquals(a, b) == a = b /\ a.k # "nan"

\* isFinite(a) on numbers
IsFinite(a) == ToNumber(a).k = "fin"

(***************************************************************************)
(* Faulty variants of clamp, for comparison: the bounds applied in the     *)
(* other order, the absent check left out, and the absent check written    *)
(* as !value.                                                              *)
(***************************************************************************)
clampMinFirst(value, min, max) ==
  LET hi == IF IsNullish(max) THEN Infinity ELSE max
      lo == IF IsNullish(min) THEN NegInfinity ELSE min
  IN  IF IsNullish(value) \/ value = EmptyString THEN Null
      ELSE MathMin(MathMax(value, lo), hi)

clampNoGuard(value, min, max) ==
  LET hi == IF IsNullish(max) THEN Infinity ELSE max
      lo == IF IsNullish(min) THEN NegInfinity ELSE min
  IN  MathMax(MathMin(value, hi), lo)

clampFalsy(value, min, max) ==
  LET hi == IF IsNullish(max) THEN Infinity ELSE max
      lo == IF IsNullish(min) THEN NegInfinity ELSE min
  IN  IF IsFalsy(value) THEN Null
      ELSE MathMax(MathMin(value, hi), lo)

(***************************************************************************)
(* clamp(value, min, max)                                                  *)
(***************************************************************************)
clamp(value, min, max) ==
  LET hi == IF IsNullish(max) THEN Infinity ELSE max
      lo == IF IsNullish(min) THEN NegInfinity ELSE min
  IN  IF IsNullish(value) \/ value = EmptyString THEN Null
      ELSE MathMax(MathMin(value, hi), lo)

(***************************************************************************)
(* round(value, precision): the decimal point is moved right by precision  *)
(* digits, Math.round rounds to the nearest integer with ties towards      *)
(* +Infinity (floor(x + 0.5)), the point is moved back, and toFixed prints *)
(* precision fractional digits.  The result is a string.                   *)
(***************************************************************************)
MathRound(num, den) == (2 * num + den) \div (2 * den)

round(value, precision) ==
  IF value.k # "fin" THEN NaNString
  ELSE Str(MathRound(value.n * Pow10(precision), Unit), precision)


(***************************************************************************)
(* State.                                                                  *)
(*   props          the component's props; props.value is fed back from    *)
(*                  onChange by the uncontrollable wrapper                 *)
(*   cancelRepeater this._cancelRepeater: 0 for null, else the closure of  *)
(*                  createInterval whose cancel it holds                   *)
(*   intervals      the closures of createInterval: the id variable and    *)
(*                  the callback: "UP" or "DOWN" for the component's, by   *)
(*                  the direction it captured, "IDLE" or "STOP" for a      *)
(*                  plain caller's that does nothing or cancels            *)
(*   timers         the host's table of pending timeouts: handle, ms left  *)
(*                  until due, ms overdue, and the closure whose fn it runs*)
(*   canceled, early, calls, age, clock, last                              *)
(*                  observations: closures whose cancel was invoked,       *)
(*                  closures canceled within the initial delay, callback   *)
(*                  invocations per closure, ms since a closure started    *)
(*                  (up to InitialDelay), ms since it started or last ran  *)
(*                  its callback, and what the last handler did            *)
(*   call           the last direct application of clamp, round or step    *)
(***************************************************************************)
VARIABLES props, cancelRepeater, intervals, timers,
          canceled, early, calls, age, clock, last, call

vars == <<props, cancelRepeater, intervals, timers,
          canceled, early, calls, age, clock, last, call>>

Slots == 1..MaxIntervals
Ids == 1..MaxIds
ClockCap == InitialDelay + MaxLate + Quantum

Min2(a, b) == IF a < b THEN a ELSE b
SetMin(S) == CHOOSE x \in S : \A y \in S : x <= y

NoInterval == [id |-> 0, callback |-> "NONE"]
NoCall ==
  [op |-> "none", value |-> Undefined, min |-> Undefined, max |-> Undefined,
   amount |-> Undefined, decimals |-> NoPrecision, ret |-> Undefined,
   raw |-> Undefined]

Did(op, direction) ==
  [op |-> op, dir |-> direction, ret |-> Undefined, raw |-> Undefined,
   notified |-> <<>>, fired |-> 0, started |-> 0, steps |-> 0, armed |-> <<>>]

\* the state as one record, so that the handlers compose as they call each other
Cur ==
  [props |-> props, cancelRepeater |-> cancelRepeater, intervals |-> intervals,
   timers |-> timers, canceled |-> canceled, early |-> early, calls |-> calls,
   age |-> age, clock |-> clock, last |-> last, ok |-> TRUE]

\* (the handler's result is computed once, then assigned)
Becomes(s) ==
  \E r \in {s} :
    /\ r.ok
    /\ props' = r.props
    /\ cancelRepeater' = r.cancelRepeater
    /\ intervals' = r.intervals
    /\ timers' = r.timers
    /\ canceled' = r.canceled
    /\ early' = r.early
    /\ calls' = r.calls
    /\ age' = r.age
    /\ clock' = r.clock
    /\ last' = r.last
    /\ call' = call

(***************************************************************************)
(* The host's timers.                                                      *)
(***************************************************************************)
\* a closure is reachable while its cancel is held or a timeout will run its fn
Alive(s, k) == s.cancelRepeater = k \/ \E t \in s.timers : t.fn = k

IdsInUse(s) ==
  {t.id : t \in s.timers} \cup {s.intervals[k].id : k \in {j \in Slots : Alive(s, j)}}

FreeIds(s) == Ids \ IdsInUse(s)

FreeSlots(s) == {k \in Slots : ~Alive(s, k)}

NewSlot(s) == SetMin(FreeSlots(s))

\* setTimeout(fn, delay), returning the handle id
setTimeout(s, id, k, delay) ==
  [s EXCEPT !.timers = @ \cup {[id |-> id, left |-> delay, late |-> 0, fn |-> k]}]

clearTimeout(s, id) ==
  [s EXCEPT !.timers = {t \in @ : t.id # id}]

(***************************************************************************)
(* createInterval(callback)                                                *)
(***************************************************************************)
\* faulty variant: cancel clears a handle that is not the pending timeout's
cancelWrongHandle(s, k) ==
  [s EXCEPT
     !.canceled = @ \cup {k},
     !.early = IF s.age[k] < InitialDelay /\ k \notin s.canceled
               THEN @ \cup {k} ELSE @,
     !.age[k] = 0,
     !.clock[k] = 0]

\* faulty variant: a second invocation resumes the ticks, as a toggle would
cancelToggles(s, k) ==
  IF k \in s.canceled
  THEN setTimeout(s, s.intervals[k].id, k, RepeatDelay)
  ELSE [clearTimeout(s, s.intervals[k].id) EXCEPT
          !.canceled = @ \cup {k},
          !.early = IF s.age[k] < InitialDelay THEN @ \cup {k} ELSE @,
          !.age[k] = 0,
          !.clock[k] = 0]

\* cancel = () => clearTimeout(id)
cancel(s, k) ==
  [clearTimeout(s, s.intervals[k].id) EXCEPT
     !.canceled = @ \cup {k},
     !.early = IF s.age[k] < InitialDelay /\ k \notin s.canceled
               THEN @ \cup {k} ELSE @,
     !.age[k] = 0,
     !.clock[k] = 0]

\* faulty variant: the first timeout uses the repeat delay
createIntervalNoDelay(s, callback) ==
  IF FreeSlots(s) = {} \/ FreeIds(s) = {} THEN [s EXCEPT !.ok = FALSE]
  ELSE LET k == NewSlot(s)
           id == SetMin(FreeIds(s))
       IN  [setTimeout(s, id, k, RepeatDelay) EXCEPT
              !.intervals[k] = [id |-> id, callback |-> callback],
              !.canceled = @ \ {k},
              !.early = @ \ {k},
              !.calls[k] = 0,
              !.age[k] = 0,
              !.clock[k] = 0,
              !.last.started = k]

\* id = setTimeout((fn = ...), 500); return cancel
createInterval(s, callback) ==
  IF FreeSlots(s) = {} \/ FreeIds(s) = {} THEN [s EXCEPT !.ok = FALSE]
  ELSE LET k == NewSlot(s)
           id == SetMin(FreeIds(s))
       IN  [setTimeout(s, id, k, InitialDelay) EXCEPT
              !.intervals[k] = [id |-> id, callback |-> callback],
              !.canceled = @ \ {k},
              !.early = @ \ {k},
              !.calls[k] = 0,
              !.age[k] = 0,
              !.clock[k] = 0,
              !.last.started = k]

\* faulty variant: setTimeout(fn, 35) without the assignment to id
rescheduleLost(s, k) ==
  IF FreeIds(s) = {} THEN [s EXCEPT !.ok = FALSE]
  ELSE setTimeout(s, SetMin(FreeIds(s)), k, RepeatDelay)

\* id = setTimeout(fn, 35), the first statement of fn
reschedule(s, k) ==
  IF FreeIds(s) = {} THEN [s EXCEPT !.ok = FALSE]
  ELSE LET id == SetMin(FreeIds(s))
       IN  [setTimeout(s, id, k, RepeatDelay) EXCEPT !.intervals[k].id = id]

(***************************************************************************)
(* The component.                                                          *)
(***************************************************************************)
\* @widgetEditable: the handler runs unless the widget is disabled or read-only
widgetEditable(p) == ~p.disabled /\ ~p.readOnly

\* numberLocalizer.precision(format(props))
localizerPrecision(p) == p.format

\* notify(onChange, [nextValue, ...]): the wrapper makes nextValue the value prop
notify(s, nextValue) ==
  [s EXCEPT !.props.value = nextValue, !.last.notified = <<nextValue>>]

\* faulty variant: the raw value is reported unclamped
handleChangeUnclamped(s, rawValue) ==
  LET lastValue == s.props.value
      nextValue == IF IsNullish(rawValue) THEN Null ELSE ToNumber(rawValue)
  IN  IF ~StrictEquals(lastValue, nextValue) THEN notify(s, nextValue) ELSE s

\* faulty variant: the rawValue, not the clamped value, is compared
handleChangeComparesRaw(s, rawValue) ==
  LET lastValue == s.props.value
      nextValue == clamp(rawValue, s.props.min, s.props.max)
  IN  [(IF ~StrictEquals(lastValue, rawValue) THEN notify(s, nextValue) ELSE s)
         EXCEPT !.last.raw = rawValue]

\* last.raw is the rawValue it was called with
handleChange(s, rawValue) ==
  LET lastValue == s.props.value
      nextValue == clamp(rawValue, s.props.min, s.props.max)
  IN  [(IF ~StrictEquals(lastValue, nextValue) THEN notify(s, nextValue) ELSE s)
         EXCEPT !.last.raw = rawValue]

\* var value = (this.props.value || 0) + amount
stepValue(p, amount) ==
  Plus(IF IsFalsy(p.value) THEN Num(0) ELSE p.value, amount)

stepDecimals(p) ==
  IF p.precision.present THEN p.precision ELSE localizerPrecision(p)

\* faulty variant: round is applied whether or not there is a precision
stepRawAlwaysRounds(p, amount) ==
  round(stepValue(p, amount), stepDecimals(p).digits)

\* the argument step hands to handleChange
stepRaw(p, amount) ==
  LET value == stepValue(p, amount)
      decimals == stepDecimals(p)
  IN  IF decimals.present THEN round(value, decimals.digits) ELSE value

\* step(amount, event); last.ret is the value it returns, last.steps counts
\* the calls of step within one handler
step(s, amount) ==
  [handleChange(s, stepRaw(s.props, amount)) EXCEPT
     !.last.ret = stepValue(s.props, amount),
     !.last.raw = stepRaw(s.props, amount),
     !.last.steps = @ + 1]

increment(s) == step(s, s.props.step)

decrement(s) == step(s, Negate(s.props.step))

\* faulty variant: the field is nulled, the handle in it never called
handleMouseUpForgets(s) ==
  IF ~widgetEditable(s.props) THEN s
  ELSE [s EXCEPT !.cancelRepeater = 0]

handleMouseUp(s) ==
  IF ~widgetEditable(s.props) THEN s
  ELSE [(IF s.cancelRepeater # 0 THEN cancel(s, s.cancelRepeater) ELSE s)
          EXCEPT !.cancelRepeater = 0]

\* faulty variant: the interval is created without looking at _cancelRepeater
handleMouseDownRestarts(s, direction) ==
  IF ~widgetEditable(s.props) THEN s
  ELSE LET min == s.props.min
           max == s.props.max
           s1 == IF direction = "UP" THEN increment(s) ELSE decrement(s)
           value == s1.last.ret
           atTop == direction = "UP" /\ StrictEquals(value, max)
           atBottom == direction = "DOWN" /\ StrictEquals(value, min)
       IN  IF atTop \/ atBottom THEN handleMouseUp(s1)
           ELSE LET s2 == createInterval(s1, direction)
                IN  [s2 EXCEPT !.cancelRepeater = s2.last.started]

handleMouseDown(s, direction) ==
  IF ~widgetEditable(s.props) THEN s
  ELSE LET min == s.props.min
           max == s.props.max
           s1 == IF direction = "UP" THEN increment(s) ELSE decrement(s)
           value == s1.last.ret
           atTop == direction = "UP" /\ StrictEquals(value, max)
           atBottom == direction = "DOWN" /\ StrictEquals(value, min)
       IN  IF atTop \/ atBottom THEN handleMouseUp(s1)
           ELSE IF s1.cancelRepeater = 0
                THEN LET s2 == createInterval(s1, direction)
                     IN  [s2 EXCEPT !.cancelRepeater = s2.last.started]
           ELSE s1

\* faulty variant: event.defaultPrevented is not looked at
handleKeyDownUnguarded(s, key, prevented) ==
  IF ~widgetEditable(s.props) THEN s
  ELSE IF key = "End" /\ IsFinite(s.props.max) THEN handleChange(s, s.props.max)
  ELSE IF key = "Home" /\ IsFinite(s.props.min) THEN handleChange(s, s.props.min)
  ELSE IF key = "ArrowDown" THEN decrement(s)
  ELSE IF key = "ArrowUp" THEN increment(s)
  ELSE s

\* faulty variant: the arrow keys go through handleMouseDown, as the buttons do
handleKeyDownRepeats(s, key, prevented) ==
  IF ~widgetEditable(s.props) THEN s
  ELSE IF prevented THEN s
  ELSE IF key = "End" /\ IsFinite(s.props.max) THEN handleChange(s, s.props.max)
  ELSE IF key = "Home" /\ IsFinite(s.props.min) THEN handleChange(s, s.props.min)
  ELSE IF key = "ArrowDown" THEN handleMouseDown(s, "DOWN")
  ELSE IF key = "ArrowUp" THEN handleMouseDown(s, "UP")
  ELSE s

\* onKeyDown may call event.preventDefault(): prevented
handleKeyDown(s, key, prevented) ==
  IF ~widgetEditable(s.props) THEN s
  ELSE IF prevented THEN s
  ELSE IF key = "End" /\ IsFinite(s.props.max) THEN handleChange(s, s.props.max)
  ELSE IF key = "Home" /\ IsFinite(s.props.min) THEN handleChange(s, s.props.min)
  ELSE IF key = "ArrowDown" THEN decrement(s)
  ELSE IF key = "ArrowUp" THEN increment(s)
  ELSE s

\* callback(): the component's is () => this.handleMouseDown(direction, event);
\* last.armed is what it finds on entry: the pending timeouts that will run
\* its closure's fn, each by handle and ms left, and the closure's id variable
callback(s, k) ==
  LET s1 == [s EXCEPT !.calls[k] = Min2(@ + 1, CallsCap),
                      !.clock[k] = 0,
                      !.last.fired = k,
                      !.last.armed =
                         <<{<<t.id, t.left>> : t \in {u \in s.timers : u.fn = k}},
                           s.intervals[k].id>>]
      kind == s.intervals[k].callback
  IN  IF kind = "IDLE" THEN s1
      ELSE IF kind = "STOP" THEN cancel(s1, k)
      ELSE handleMouseDown(s1, kind)

\* faulty variant: callback() first, the next timeout set after it returns
fnCallbackFirst(s, k) == reschedule(callback(s, k), k)

\* fn: id = setTimeout(fn, 35), then callback()
fn(s, k) == callback(reschedule(s, k), k)


(***************************************************************************)
(* Initial states: the props the component is mounted with.                *)
(***************************************************************************)
DefaultProps ==
  [value |-> Null, min |-> NegInfinity, max |-> Infinity, step |-> Dec(DefaultStep, 0),
   precision |-> NoPrecision, format |-> NoPrecision,
   disabled |-> FALSE, readOnly |-> FALSE]

Configs ==
  { \* range [0, 10], step 1, value 9, no precision anywhere
    [DefaultProps EXCEPT !.value = Dec(9, 0), !.min = Dec(0, 0), !.max = Dec(10, 0)],
    \* the defaults but step 5, the format giving 0 decimals
    [DefaultProps EXCEPT !.step = Dec(5, 0), !.format = Precision(0)],
    \* range [-2, 2], step 0.5 rounded to 0 decimals, value -1.5
    [DefaultProps EXCEPT !.value = Dec(-15, 1), !.min = Dec(-2, 0), !.max = Dec(2, 0),
                         !.step = Dec(5, 1), !.precision = Precision(0)],
    \* a malformed range, min 2 above max 0, value 1
    [DefaultProps EXCEPT !.value = Dec(1, 0), !.min = Dec(2, 0), !.max = Dec(0, 0)],
    \* range [0, 10], step 4, value 5: the steps pass the bounds, never meet them
    [DefaultProps EXCEPT !.value = Dec(5, 0), !.min = Dec(0, 0), !.max = Dec(10, 0),
                         !.step = Dec(4, 0)] }

ValueCap == 10         \* |props.value| stays within this (a bound)

Directions == {"UP", "DOWN"}
Keys == {"End", "Home", "ArrowDown", "ArrowUp", "Enter"}
\* what NumberInput hands to onChange: a parsed number, or null for no input
TypedValues == {Null, Dec(1, 0), Dec(25, 0)}

InitWidget ==
  /\ props \in Configs \cup {DefaultProps}
  /\ cancelRepeater = 0
  /\ intervals = [k \in Slots |-> NoInterval]
  /\ timers = {}
  /\ canceled = {}
  /\ early = {}
  /\ calls = [k \in Slots |-> 0]
  /\ age = [k \in Slots |-> 0]
  /\ clock = [k \in Slots |-> 0]
  /\ last = Did("mount", "NONE")

Init ==
  /\ InitWidget
  /\ props \in Configs
  /\ call = NoCall

InCap(s) ==
  s.props.value.k = "fin" =>
    /\ s.props.value.n <= ValueCap * Unit
    /\ s.props.value.n >= 0 - ValueCap * Unit

\* a handler ran to completion from the current state
Handled(s) ==
  \E r \in {s} :
    /\ InCap(r)
    /\ Becomes(r)

\* a closure nothing refers to any more is collected: its observations go
Collected(s) ==
  [s EXCEPT
     !.intervals = [k \in Slots |-> IF Alive(s, k) THEN @[k] ELSE NoInterval],
     !.canceled = {k \in @ : Alive(s, k)},
     !.early = {k \in @ : Alive(s, k)},
     !.calls = [k \in Slots |-> IF Alive(s, k) THEN @[k] ELSE 0],
     !.age = [k \in Slots |-> IF Alive(s, k) THEN @[k] ELSE 0],
     !.clock = [k \in Slots |-> IF Alive(s, k) THEN @[k] ELSE 0]]

Start(op, direction) == [Collected(Cur) EXCEPT !.last = Did(op, direction)]

(***************************************************************************)
(* Events.                                                                 *)
(***************************************************************************)
MouseDown(direction) ==
  /\ direction \in Directions
  /\ Handled(handleMouseDown(Start("mousedown", direction), direction))

MouseUp(direction) ==
  /\ direction \in Directions
  /\ Handled(handleMouseUp(Start("mouseup", "NONE")))

MouseLeave(direction) ==
  /\ direction \in Directions
  /\ Handled(handleMouseUp(Start("mouseleave", "NONE")))

\* last.dir tells whether onKeyDown prevented the default
KeyDown(key, prevented) ==
  /\ key \in Keys
  /\ Handled(handleKeyDown(Start(key, IF prevented THEN "PREVENTED" ELSE "NONE"),
                           key, prevented))

InputChange(rawValue) ==
  /\ rawValue \in TypedValues
  /\ Handled(handleChange(Start("input", "NONE"), rawValue))

\* the host runs a due timeout: it leaves the table, then its fn runs
Tick(id) ==
  /\ id \in Ids
  /\ \E t \in timers :
       /\ t.id = id
       /\ t.left = 0
       /\ LET s == [Start("tick", intervals[t.fn].callback) EXCEPT !.timers = @ \ {t}]
          IN  Handled(fn(s, t.fn))

\* the parent re-renders the component with disabled or readOnly flipped
SetDisabled ==
  \E disabled \in BOOLEAN :
    /\ disabled # props.disabled
    /\ Becomes([Start("props", "NONE") EXCEPT !.props.disabled = disabled])

SetReadOnly ==
  \E readOnly \in BOOLEAN :
    /\ readOnly # props.readOnly
    /\ Becomes([Start("props", "NONE") EXCEPT !.props.readOnly = readOnly])

\* time passes: up to Quantum ms, never beyond the next deadline, and a due
\* timeout is run before it is more than MaxLate ms late
Elapse ==
  SetMin({Quantum} \cup {t.left : t \in {u \in timers : u.left > 0}}
                   \cup {MaxLate - t.late : t \in {u \in timers : u.left = 0}})

Advance ==
  /\ timers # {}
  /\ Elapse > 0
  /\ LET d == Elapse
         running == {t.fn : t \in timers}
     IN  Becomes([Start("advance", "NONE") EXCEPT
           !.timers = {IF t.left > 0 THEN [t EXCEPT !.left = @ - d]
                       ELSE [t EXCEPT !.late = @ + d] : t \in @},
           !.age = [k \in Slots |-> IF k \in running
                                    THEN Min2(@[k] + d, InitialDelay) ELSE @[k]],
           !.clock = [k \in Slots |-> IF k \in running
                                      THEN Min2(@[k] + d, ClockCap) ELSE @[k]]])

Next ==
  \/ \E d \in Directions : MouseDown(d)
  \/ \E d \in Directions : MouseUp(d)
  \/ \E d \in Directions : MouseLeave(d)
  \/ \E key \in Keys, prevented \in BOOLEAN : KeyDown(key, prevented)
  \/ \E rawValue \in TypedValues : InputChange(rawValue)
  \/ \E id \in Ids : Tick(id)
  \/ SetDisabled
  \/ SetReadOnly
  \/ Advance

Spec == Init /\ [][Next]_vars


(***************************************************************************)
(* createInterval on its own: a caller starts a timer with a callback that *)
(* does nothing or that cancels, keeps the handle where the component      *)
(* keeps it, invokes it any number of times, directly or by the            *)
(* component's handleMouseUp, and lets go of it, canceled or not; the next *)
(* timer is started once no timeout is pending.  The host                  *)
(* keeps time running and runs the timeouts that are due.                  *)
(***************************************************************************)
InitTimer ==
  /\ InitWidget
  /\ props = DefaultProps
  /\ call = NoCall

StartInterval(kind) ==
  /\ kind \in {"IDLE", "STOP"}
  /\ cancelRepeater = 0
  /\ timers = {}
  /\ LET s == createInterval(Start("start", kind), kind)
     IN  Becomes([s EXCEPT !.cancelRepeater = s.last.started])

\* last.dir tells whether the handle had been invoked before
InvokeCancel ==
  /\ cancelRepeater # 0
  /\ Becomes(cancel(Start("cancel", IF cancelRepeater \in canceled
                                    THEN "AGAIN" ELSE "FIRST"),
                    cancelRepeater))

DropHandle ==
  /\ cancelRepeater # 0
  /\ Becomes([Start("drop", "NONE") EXCEPT !.cancelRepeater = 0])

TimerNext ==
  \/ \E kind \in {"IDLE", "STOP"} : StartInterval(kind)
  \/ InvokeCancel
  \/ DropHandle
  \/ \E d \in Directions : MouseUp(d)
  \/ \E id \in Ids : Tick(id)
  \/ Advance

TimerSpec ==
  /\ InitTimer
  /\ [][TimerNext]_vars
  /\ WF_vars(Advance)
  /\ WF_vars(\E id \in Ids : Tick(id))

(***************************************************************************)
(* clamp, round and step applied to arguments drawn from bounded sets.     *)
(***************************************************************************)
MaxHalves == 6         \* clamp is applied to the halves up to this many
MaxMantissa == 30      \* round is applied to the mantissas up to this
MaxPrecision == 2      \* and to the precisions up to this

Precisions == 0..Min2(MaxPrecision, FracDigits)

ClampValues ==
  {Null, Undefined, EmptyString, Infinity, NegInfinity}
    \cup {Dec(5 * d, 1) : d \in (0 - MaxHalves)..MaxHalves}
    \cup {Str(d, 1) : d \in {-25, 0, 7, 31}}

ClampBounds ==
  {Null, Undefined, NegInfinity, Infinity, Dec(-1, 0), Dec(0, 0), Dec(2, 0)}

RoundValues ==
  {Dec(d, 3) : d \in (0 - MaxMantissa)..MaxMantissa}
    \cup {Dec(5 * d, 1) : d \in (0 - MaxMantissa)..MaxMantissa}

StepValues ==
  {Null, Undefined, Dec(0, 0), Dec(1, 0), Dec(5, 0), Dec(-2, 0), Dec(-15, 1)}

StepAmounts == {Dec(1, 0), Dec(5, 3), Dec(5, 1), Dec(25, 1)}

ApplyClamp(value, min, max) ==
  /\ call.op = "none"
  /\ call' = [NoCall EXCEPT !.op = "clamp", !.value = value, !.min = min,
                            !.max = max, !.ret = clamp(value, min, max)]
  /\ UNCHANGED <<props, cancelRepeater, intervals, timers,
                 canceled, early, calls, age, clock, last>>

ApplyRound(value, precision) ==
  /\ call.op = "none"
  /\ call' = [NoCall EXCEPT !.op = "round", !.value = value,
                            !.decimals = Precision(precision),
                            !.ret = round(value, precision)]
  /\ UNCHANGED <<props, cancelRepeater, intervals, timers,
                 canceled, early, calls, age, clock, last>>

\* increment or decrement on a component whose props are p
ApplyStep(op, p) ==
  LET s == [Start(op, "NONE") EXCEPT !.props = p]
      r == IF op = "increment" THEN increment(s) ELSE decrement(s)
  IN  /\ call.op = "none"
      /\ call' = [NoCall EXCEPT !.op = op, !.value = p.value, !.min = p.min,
                                !.max = p.max, !.amount = p.step,
                                !.decimals = stepDecimals(p),
                                !.ret = r.last.ret, !.raw = r.last.raw]
      /\ UNCHANGED <<props, cancelRepeater, intervals, timers,
                     canceled, early, calls, age, clock, last>>

StepProps ==
  {[DefaultProps EXCEPT !.value = v, !.step = a, !.precision = d, !.format = f] :
     v \in StepValues, a \in StepAmounts,
     d \in {NoPrecision} \cup {Precision(n) : n \in Precisions},
     f \in {NoPrecision, Precision(0)}}

FnNext ==
  \/ \E value \in ClampValues, min \in ClampBounds, max \in ClampBounds :
       ApplyClamp(value, min, max)
  \/ \E value \in RoundValues, precision \in Precisions : ApplyRound(value, precision)
  \/ \E op \in {"increment", "decrement"}, p \in StepProps : ApplyStep(op, p)

FnSpec == Init /\ [][FnNext]_vars


(***************************************************************************)
(* Properties.                                                             *)
(***************************************************************************)
Absent == {Null, Undefined, EmptyString}

\* a timeout that will run closure k's fn is pending
Running(k) == \E t \in timers : t.fn = k

\* closure k was started, is still held or scheduled, and was never canceled
Uncanceled(k) == intervals[k].callback # "NONE" /\ k \notin canceled

\* the last handler performed an increment step / a decrement step
Incremented ==
  /\ last.ret # Undefined
  /\ \/ last.op = "ArrowUp"
     \/ last.op \in {"mousedown", "tick"} /\ last.dir = "UP"

Decremented ==
  /\ last.ret # Undefined
  /\ \/ last.op = "ArrowDown"
     \/ last.op \in {"mousedown", "tick"} /\ last.dir = "DOWN"

\* C1: once a closure's cancel has been invoked, no step invokes its callback
\* again.  A callback is only ever invoked by a timeout running the closure's
\* fn, and the canceled mark stays for as long as such a timeout exists, so
\* this covers a cancel during the initial delay, between ticks, with a tick
\* due, and from inside the callback.
CancelStopsCallbacks ==
  [][last'.fired # 0 => last'.fired \notin canceled]_vars

\* the callback canceled its own closure, and no timeout is left
CanceledInsideCallback ==
  /\ last.op = "tick"
  /\ last.fired \in canceled
  /\ ~Running(last.fired)

\* C2: with min <= max every value reported through onChange is null or lies
\* in [min, max]; and on [0, 10] with step 1 and no precision an increment at
\* 9 or at 10 leaves the value 10.
OnChangeWithinRange ==
  /\ [](~NumLess(props.max, props.min) /\ last.notified # <<>> =>
          \/ last.notified[1] = Null
          \/ /\ last.notified[1].t = "number"
             /\ last.notified[1].k # "nan"
             /\ ~NumLess(last.notified[1], props.min)
             /\ ~NumLess(props.max, last.notified[1]))
  /\ [][(/\ props.min = Dec(0, 0)
         /\ props.max = Dec(10, 0)
         /\ props.step = Dec(1, 0)
         /\ ~stepDecimals(props).present
         /\ props.value \in {Dec(9, 0), Dec(10, 0)}
         /\ Incremented') => props'.value = Dec(10, 0)]_vars

\* an increment at 10 summed to 11 and the value stayed 10
IncrementClampedAtMax ==
  /\ props.min = Dec(0, 0)
  /\ props.max = Dec(10, 0)
  /\ Incremented
  /\ last.ret = Dec(11, 0)
  /\ last.notified = <<>>
  /\ props.value = Dec(10, 0)

\* C3: when the step of handleMouseDown returns exactly max in an increment
\* gesture, or exactly min in a decrement gesture, then after the handler no
\* timeout is pending and _cancelRepeater is null, for a press and for a tick.
BoundStopsRepeater ==
  (/\ last.op \in {"mousedown", "tick"}
   /\ \/ Incremented /\ StrictEquals(last.ret, props.max)
      \/ Decremented /\ StrictEquals(last.ret, props.min))
  => timers = {} /\ cancelRepeater = 0

\* a tick's step landed on max and the repeat timer is gone
TickLandedOnMax ==
  /\ last.op = "tick"
  /\ Incremented
  /\ StrictEquals(last.ret, props.max)
  /\ timers = {}

\* C4: the callback of an uncanceled closure first runs InitialDelay ms after
\* createInterval and then RepeatDelay ms after its previous run, each up to
\* the MaxLate ms a host may be late, never earlier; and it runs again and
\* again for as long as the closure is not canceled.
TimerSchedule ==
  /\ [][last'.fired # 0 =>
          IF calls[last'.fired] = 0
          THEN /\ clock[last'.fired] >= InitialDelay
               /\ clock[last'.fired] <= InitialDelay + MaxLate
          ELSE /\ clock[last'.fired] >= RepeatDelay
               /\ clock[last'.fired] <= RepeatDelay + MaxLate]_vars
  /\ \A k \in Slots : Uncanceled(k) ~> (last.fired = k \/ ~Uncanceled(k))

\* a callback ran for at least the second time, its closure not canceled
CallbackRepeated ==
  \E k \in Slots :
    /\ last.fired = k
    /\ calls[k] >= 2
    /\ Uncanceled(k)
    /\ Running(k)

\* C5: a closure whose cancel was invoked before InitialDelay ms had passed
\* since createInterval has had its callback invoked zero times.
EarlyCancelNoCalls ==
  \A k \in early : calls[k] = 0

\* the handle held was invoked within the initial delay; its timeout is gone
CanceledDuringInitialDelay ==
  /\ last.op = "cancel"
  /\ cancelRepeater \in early
  /\ ~Running(cancelRepeater)

\* round half away from zero: num / den to the nearest integer
HalfAway(num, den) ==
  IF num >= 0 THEN (2 * num + den) \div (2 * den)
  ELSE 0 - ((2 * (0 - num) + den) \div (2 * den))

\* C6: with a precision, round gives the value rounded to that many
\* fractional digits half away from zero, for positive and negative values.
RoundsHalfAwayFromZero ==
  /\ call.op = "round" =>
       call.ret = Str(HalfAway(call.value.n * Pow10(call.decimals.digits), Unit),
                      call.decimals.digits)
  /\ call.op \in {"increment", "decrement"} /\ call.decimals.present =>
       call.raw = Str(HalfAway(call.ret.n * Pow10(call.decimals.digits), Unit),
                      call.decimals.digits)

\* C7: for a value that is not absent, clamp gives max(min(value, max), min)
\* with an absent max +Infinity and an absent min -Infinity; with both
\* infinite it gives the value, and with min <= max a result in [min, max].
ClampIsMaxOfMin ==
  call.op = "clamp" /\ call.value \notin Absent =>
    LET v == ToNumber(call.value)
        hi == IF call.max \in {Null, Undefined} THEN Infinity ELSE call.max
        lo == IF call.min \in {Null, Undefined} THEN NegInfinity ELSE call.min
        m == IF NumLess(hi, v) THEN hi ELSE v
        r == IF NumLess(m, lo) THEN lo ELSE m
    IN  /\ call.ret = r
        /\ lo = NegInfinity /\ hi = Infinity => call.ret = v
        /\ ~NumLess(hi, lo) => ~NumLess(call.ret, lo) /\ ~NumLess(hi, call.ret)

\* clamp cut a value above the range down to max
ClampedToMax ==
  /\ call.op = "clamp"
  /\ call.value = Dec(25, 1)
  /\ call.min = Null
  /\ call.max = Dec(2, 0)
  /\ call.ret = Dec(2, 0)

\* C8: clamp of an absent value (null, undefined, '') is null, whatever the
\* bounds.
ClampOfAbsentIsNull ==
  call.op = "clamp" /\ call.value \in Absent => call.ret = Null

\* clamp was given '' with finite bounds and gave null
ClampedEmptyString ==
  /\ call.op = "clamp"
  /\ call.value = EmptyString
  /\ call.min = Dec(-1, 0)
  /\ call.max = Dec(2, 0)
  /\ call.ret = Null

\* C9: clamp applied to its own result, with the same bounds, gives that
\* result.
ClampIdempotent ==
  call.op = "clamp" => clamp(call.ret, call.min, call.max) = call.ret

\* clamp moved a value, so the second application starts from another value
ClampMovedValue ==
  /\ call.op = "clamp"
  /\ call.value = Dec(-30, 1)
  /\ call.min = Dec(0, 0)
  /\ call.max = Dec(2, 0)
  /\ call.ret = Dec(0, 0)

\* C10: step returns (value, or 0 when it is absent) + amount, the amount
\* being +step for increment and -step for decrement; without a precision
\* that unrounded sum is what it hands on; 5 + 1 is 6 and 5 - 1 is 4.
StepAddsAmount ==
  call.op \in {"increment", "decrement"} =>
    LET base == IF call.value \in {Null, Undefined} THEN 0 ELSE call.value.n
        amount == IF call.op = "increment" THEN call.amount.n ELSE 0 - call.amount.n
    IN  /\ call.ret = Num(base + amount)
        /\ ~call.decimals.present => call.raw = Num(base + amount)
        /\ call.value = Dec(5, 0) /\ call.amount = Dec(1, 0) =>
             call.ret = IF call.op = "increment" THEN Dec(6, 0) ELSE Dec(4, 0)

\* a decrement from an absent value, no precision: 0 - 1
SteppedFromAbsent ==
  /\ call.op = "decrement"
  /\ call.value = Null
  /\ call.amount = Dec(1, 0)
  /\ ~call.decimals.present
  /\ call.ret = Dec(-1, 0)
  /\ call.raw = Dec(-1, 0)

\* C11: invoking a cancel handle that was invoked before (by its holder or by
\* the callback itself), and handleMouseUp while _cancelRepeater is null,
\* change nothing: the pending timeouts, _cancelRepeater, the props and every
\* live closure stay as they were, no callback is invoked, no step is made
\* and nothing is reported.
CancelIdempotent ==
  [][(\/ last'.op = "cancel" /\ cancelRepeater \in canceled
      \/ last'.op \in {"mouseup", "mouseleave"} /\ cancelRepeater = 0)
     => /\ timers' = timers
        /\ cancelRepeater' = cancelRepeater
        /\ props' = props
        /\ last'.fired = 0
        /\ last'.steps = 0
        /\ last'.notified = <<>>
        /\ \A k \in Slots :
             Alive(Cur, k) => /\ intervals'[k] = intervals[k]
                              /\ calls'[k] = calls[k]
                              /\ (k \in canceled') = (k \in canceled)]_vars

\* a handle was invoked for the second time
CanceledTwice ==
  /\ last.op = "cancel"
  /\ last.dir = "AGAIN"
  /\ cancelRepeater \in canceled
  /\ timers = {}

\* a key down whose default onKeyDown prevented changed nothing
PreventedKeyInert ==
  /\ props' = props
  /\ timers' = timers
  /\ cancelRepeater' = cancelRepeater
  /\ last'.notified = <<>>
  /\ last'.steps = 0
  /\ last'.fired = 0

\* End, or Home, with an infinite bound left the value alone and reported nothing
InfiniteBoundInert ==
  /\ last'.op = "End" /\ ~IsFinite(props.max) =>
       props'.value = props.value /\ last'.notified = <<>>
  /\ last'.op = "Home" /\ ~IsFinite(props.min) =>
       props'.value = props.value /\ last'.notified = <<>>

\* End, or Home, with a finite bound made that bound the value
FiniteBoundSet ==
  /\ last'.op = "End" /\ IsFinite(props.max) => props'.value = props.max
  /\ last'.op = "Home" /\ IsFinite(props.min) => props'.value = props.min

\* C12 as stated: on every key down, End makes a finite max the value and
\* Home a finite min, with an infinite bound the key leaves the value alone
\* and reports nothing, and a key whose default was prevented does nothing.
KeysSetBounds ==
  [][last'.op \in Keys =>
       IF last'.dir = "PREVENTED" THEN PreventedKeyInert
       ELSE FiniteBoundSet /\ InfiniteBoundInert]_vars

\* C12, amended: the same, End and Home making the bound the value only on a
\* widget that is neither disabled nor read-only and whose min is not above
\* its max.
KeysSetBoundsWhenEditable ==
  [][last'.op \in Keys =>
       IF last'.dir = "PREVENTED" THEN PreventedKeyInert
       ELSE /\ InfiniteBoundInert
            /\ widgetEditable(props) /\ ~NumLess(props.max, props.min) =>
                 FiniteBoundSet]_vars

\* End moved the value up to a finite max and reported it
EndSetMax ==
  /\ last.op = "End"
  /\ last.dir = "NONE"
  /\ IsFinite(props.max)
  /\ last.notified = <<props.max>>
  /\ props.value = props.max

\* C13: whenever a callback is entered, exactly one timeout that will run its
\* closure's fn is pending, it is due in RepeatDelay ms and the closure's id,
\* which cancel clears, is its handle; and once a callback has canceled its
\* closure, on its first call or a later one, no such timeout is left.
RescheduledBeforeCallback ==
  last.fired # 0 =>
    /\ last.armed[1] = {<<last.armed[2], RepeatDelay>>}
    /\ (last.fired \in canceled => ~Running(last.fired))

\* the first call of a callback canceled its closure and left no timeout
FirstCallCanceled ==
  /\ last.op = "tick"
  /\ last.fired # 0
  /\ calls[last.fired] = 1
  /\ last.fired \in canceled
  /\ last.armed[1] # {}
  /\ timers = {}

\* C14: at most one timeout is pending, and one is pending only while
\* _cancelRepeater holds the cancel of the closure it belongs to, whose id is
\* its handle; and no handler starts an interval while a timeout is pending
\* or _cancelRepeater is set.
OneRepeatTimer ==
  /\ [](/\ Cardinality(timers) <= 1
        /\ \A t \in timers : /\ cancelRepeater = t.fn
                              /\ intervals[t.fn].id = t.id)
  /\ [][timers # {} \/ cancelRepeater # 0 => last'.started = 0]_vars

\* the other button was pressed while a repeat ran: a step, no second timer
PressedWhileRepeating ==
  /\ last.op = "mousedown"
  /\ last.steps = 1
  /\ last.started = 0
  /\ cancelRepeater # 0
  /\ intervals[cancelRepeater].callback \in Directions \ {last.dir}
  /\ Cardinality(timers) = 1

\* C15: on a widget that is neither disabled nor read-only a mouse up or a
\* mouse leave ends with no timeout pending and _cancelRepeater null, itself
\* making no step; and from a state with no timeout pending and
\* _cancelRepeater null, until the next mouse down, no timeout appears, no
\* callback runs and the repeat makes no step (only a key down steps).
ReleaseEndsGesture ==
  /\ [][last'.op \in {"mouseup", "mouseleave"} /\ widgetEditable(props) =>
          /\ timers' = {}
          /\ cancelRepeater' = 0
          /\ last'.fired = 0
          /\ last'.steps = 0]_vars
  /\ [][timers = {} /\ cancelRepeater = 0 /\ last'.op # "mousedown" =>
          /\ timers' = {}
          /\ cancelRepeater' = 0
          /\ last'.fired = 0
          /\ (last'.steps # 0 => last'.op \in {"ArrowUp", "ArrowDown"})]_vars

\* a button was released after its repeat had run callbacks: nothing pending
ReleasedAfterTicks ==
  /\ last.op \in {"mouseup", "mouseleave"}
  /\ widgetEditable(props)
  /\ \E k \in canceled : calls[k] >= 1 /\ intervals[k].callback \in Directions
  /\ timers = {}
  /\ cancelRepeater = 0

\* the value is at the bound a gesture in this direction moves towards
Pinned(p, direction) ==
  \/ direction = "UP" /\ StrictEquals(p.value, p.max)
  \/ direction = "DOWN" /\ StrictEquals(p.value, p.min)

\* C16: with min <= max, when a step of a press or of a tick brings the
\* value to the bound in the gesture's direction, whether the sum met the
\* bound or passed it, no timeout is pending and _cancelRepeater is null
\* after the handler; and no callback runs while the value is at the bound in
\* the direction of its gesture.
PinnedStopsRepeater ==
  /\ [][(/\ last'.op \in {"mousedown", "tick"}
         /\ last'.steps > 0
         /\ ~NumLess(props.max, props.min)
         /\ ~Pinned(props, last'.dir)
         /\ Pinned(props', last'.dir))
        => timers' = {} /\ cancelRepeater' = 0]_vars
  /\ [][last'.fired # 0 /\ ~NumLess(props.max, props.min)
        => ~Pinned(props, last'.dir)]_vars

\* C17: whenever handleChange has run, for a step, for End or Home, or for
\* typed input, then if its rawValue clamped to [min, max] is the current
\* value nothing is reported and the value stays, and otherwise the clamped
\* value, and only it, is reported and becomes the value.
NotifiesOnlyChange ==
  [][last'.raw # Undefined =>
       LET nextValue == clamp(last'.raw, props.min, props.max)
       IN  IF StrictEquals(props.value, nextValue)
           THEN last'.notified = <<>> /\ props'.value = props.value
           ELSE last'.notified = <<nextValue>> /\ props'.value = nextValue]_vars

\* a value above max was typed with the value at max: nothing was reported
TypedAboveMaxAtMax ==
  /\ last.op = "input"
  /\ last.raw \notin Absent
  /\ NumLess(props.max, ToNumber(last.raw))
  /\ props.value = props.max
  /\ last.notified = <<>>

\* the handler left the repeat timer as it was: the pending timeouts,
\* _cancelRepeater and every live closure; it started and ran none
TimerUntouched ==
  /\ timers' = timers
  /\ cancelRepeater' = cancelRepeater
  /\ last'.started = 0
  /\ last'.fired = 0
  /\ \A k \in Slots :
       Alive(Cur, k) => /\ intervals'[k] = intervals[k]
                        /\ (k \in canceled') = (k \in canceled)

\* the handler made one step, of +step for ArrowUp and -step for ArrowDown
SteppedOnce ==
  /\ last'.steps = 1
  /\ last'.ret = stepValue(props, IF last'.op = "ArrowUp" THEN props.step
                                  ELSE Negate(props.step))
  /\ props'.value = handleChange(Cur, last'.raw).props.value

\* C18 as stated: every ArrowUp key down makes exactly one increment step and
\* every ArrowDown key down exactly one decrement step, and leaves the repeat
\* timer as it was.
ArrowKeysStepOnce ==
  [][last'.op \in {"ArrowUp", "ArrowDown"} => SteppedOnce /\ TimerUntouched]_vars

\* C18, amended: an ArrowUp or ArrowDown key down makes exactly one step when
\* onKeyDown did not prevent the default and the widget is neither disabled
\* nor read-only, and otherwise makes none and leaves the props alone; in
\* both cases it leaves the repeat timer as it was.
ArrowKeysStepOnceWhenHandled ==
  [][last'.op \in {"ArrowUp", "ArrowDown"} =>
       /\ TimerUntouched
       /\ IF widgetEditable(props) /\ last'.dir # "PREVENTED"
          THEN SteppedOnce
          ELSE last'.steps = 0 /\ props' = props]_vars

\* ArrowUp stepped the value while a repeat was running, which goes on
ArrowUpWhileRepeating ==
  /\ last.op = "ArrowUp"
  /\ last.dir = "NONE"
  /\ last.steps = 1
  /\ last.notified # <<>>
  /\ cancelRepeater # 0
  /\ Running(cancelRepeater)

====
